---- MODULE Spec2Model ----
(***************************************************************************)
(* A model of Bloop: the layer history of components/DrawingCanvas.tsx and *)
(* the session, audio-scheduling and start-up logic of App.tsx.            *)
(*                                                                         *)
(* A canvas (the visible one, an offscreen layer, a decoded image) is a    *)
(* one-dimensional row of pixels: a sequence of colours whose length is    *)
(* the canvas width.  Colour 0 is transparent.                             *)
(***************************************************************************)
EXTENDS Integers, Sequences, FiniteSets, TLC

\* ---------------------------------------------------------------- bounds
MaxLayers == 2      \* longest layer history explored
MaxSessions == 1    \* clicks that pass the guard of handleStart
MaxChunks == 2      \* audio chunks received from the server
MaxDur == 2         \* longest audio chunk, in clock ticks
MaxClock == 3       \* last tick of the output AudioContext clock explored
MaxTimers == 1      \* 100 ms timers armed at the same time
MaxSends == 3       \* sends to the session in one turn, chunks queued

\* ------------------------------------------------------ program constants
DRAW_COLOR == 1     \* '#404040', the colour of every user stroke
AI_COLOR   == DRAW_COLOR + 1   \* a colour only a loaded image can carry


\* An optional value (null | x) is the empty sequence or <<x>>.
None == <<>>
Some(x) == <<x>>
IsNone(o) == Len(o) = 0
Get(o) == o[1]

\* The sizes the parent box takes, in pixels: a narrow and a wide layout.
Widths == {1, 2}
Colors == {0, DRAW_COLOR, AI_COLOR}

Blank(w) == [i \in 1..w |-> 0]

\* The image a generated data URL decodes to: one opaque pixel, stretched over
\* the canvas when it is drawn.
AiImages == {<<AI_COLOR>>}

\* What local storage can hold when the page loads: nothing, or an earlier
\* export of the canvas.
SavedAtLoad == {None, Some(<<DRAW_COLOR>>)}

Min(a, b) == IF a < b THEN a ELSE b
Max(a, b) == IF a > b THEN a ELSE b

VARIABLES
  \* ---- DrawingCanvas
  layers,             \* layersRef.current: sequence of offscreen canvases
  historyIndex,       \* historyIndexRef.current
  canvas,             \* pixels of the visible canvas (canvasRef.current)
  isDrawing,          \* isDrawingRef.current
  lastPos,            \* lastPosRef.current
  currentStrokeLayer, \* the stroke layer of the drawing effect's closure
  isInitialized,      \* isInitializedRef.current
  observerUrl,        \* initialDrawingUrl captured by the installed observer
  roPending,          \* the installed observer owes its first notification
  initImage,          \* initial image still loading (its onload pending)
  aiDrawingToLoad,    \* the component's aiDrawingToLoad prop
  aiImage,            \* AI image still loading (onload / onerror pending)
  \* ---- App state seen by the canvas
  canUndo, canRedo,   \* set through onHistoryUpdate
  initialDrawingUrl,  \* App state
  savedEffectRan,     \* the saved-drawing effect has run
  savedDrawing,       \* localStorage 'bloop-bloop-saved-drawing'
  \* ---- history variables
  lastOp,             \* the last operation that changed the history
  touched,            \* a stroke, AI layer, undo, redo or clear tool has acted
  \* ---- App
  app                 \* the state and refs of App, one field each

canvasVars == <<layers, historyIndex, canvas, isDrawing, lastPos,
                currentStrokeLayer, isInitialized, observerUrl, roPending,
                initImage, aiDrawingToLoad, aiImage, canUndo, canRedo,
                initialDrawingUrl, savedEffectRan, savedDrawing,
                lastOp, touched>>

vars == <<canvasVars, app>>

\* ------------------------------------------------------ Canvas 2D helpers

\* ctx.drawImage(src, 0, 0): source-over at the origin, unscaled, clipped.
drawImage(dst, src) ==
  [i \in 1..Len(dst) |->
     IF i <= Len(src) /\ src[i] # 0 THEN src[i] ELSE dst[i]]

\* ctx.drawImage(src, 0, 0, width, height) onto a fresh canvas of that size:
\* src stretched to width w (nearest source pixel).
drawImageScaled(src, w) ==
  [i \in 1..w |->
     IF Len(src) = 0 THEN 0 ELSE src[(i * Len(src) + w - 1) \div w]]

\* drawSegment: stroke from pixel a to pixel b in DRAW_COLOR, clipped.
drawSegment(dst, a, b) ==
  [i \in 1..Len(dst) |->
     IF Min(a, b) <= i /\ i <= Max(a, b) THEN DRAW_COLOR ELSE dst[i]]

\* The composite of layers[0..idx] on a cleared canvas of width w.
RECURSIVE Composite(_, _, _)
Composite(ls, idx, w) ==
  IF idx < 0 THEN Blank(w)
  ELSE IF idx + 1 > Len(ls) THEN Composite(ls, idx - 1, w)
  ELSE drawImage(Composite(ls, idx - 1, w), ls[idx + 1])

\* ------------------------------------------- the history as a state record
St == [layers |-> layers, historyIndex |-> historyIndex, canvas |-> canvas,
       canUndo |-> canUndo, canRedo |-> canRedo]

onHistoryUpdate(s, u, r) == [s EXCEPT !.canUndo = u, !.canRedo = r]

renderCanvas(s) ==
  [s EXCEPT !.canvas = Composite(s.layers, s.historyIndex, Len(s.canvas))]

\* addLayer without the slice that drops the undone layers.
addLayerKeepsFuture(s, newLayer) ==
  LET s1 == [s EXCEPT !.layers = Append(s.layers, newLayer),
                      !.historyIndex = s.historyIndex + 1,
                      !.canvas = drawImage(s.canvas, newLayer)]
  IN onHistoryUpdate(s1, s1.historyIndex > -1, FALSE)

addLayer(s, newLayer) ==
  LET kept == IF s.historyIndex < Len(s.layers) - 1
              THEN SubSeq(s.layers, 1, s.historyIndex + 1)
              ELSE s.layers
      s1 == [s EXCEPT !.layers = Append(kept, newLayer),
                      !.historyIndex = s.historyIndex + 1,
                      !.canvas = drawImage(s.canvas, newLayer)]
  IN onHistoryUpdate(s1, s1.historyIndex > -1, FALSE)

\* undo without its guard on historyIndex.
undoUnguarded(s) ==
  LET s1 == renderCanvas([s EXCEPT !.historyIndex = s.historyIndex - 1])
  IN onHistoryUpdate(s1, s1.historyIndex > -1, TRUE)

undo(s) ==
  IF s.historyIndex > -1
  THEN LET s1 == renderCanvas([s EXCEPT !.historyIndex = s.historyIndex - 1])
       IN onHistoryUpdate(s1, s1.historyIndex > -1, TRUE)
  ELSE s

\* redo that jumps to the newest layer instead of stepping by one.
redoToTop(s) ==
  IF s.historyIndex < Len(s.layers) - 1
  THEN LET s1 == renderCanvas([s EXCEPT !.historyIndex = Len(s.layers) - 1])
       IN onHistoryUpdate(s1, TRUE, FALSE)
  ELSE s

redo(s) ==
  IF s.historyIndex < Len(s.layers) - 1
  THEN LET s1 == renderCanvas([s EXCEPT !.historyIndex = s.historyIndex + 1])
       IN onHistoryUpdate(s1, TRUE, s1.historyIndex < Len(s1.layers) - 1)
  ELSE s

\* clearCanvas that empties the layers but forgets the index.
clearCanvasKeepsIndex(s) ==
  onHistoryUpdate(renderCanvas([s EXCEPT !.layers = <<>>]), FALSE, FALSE)

clearCanvas(s) ==
  onHistoryUpdate(
    renderCanvas([s EXCEPT !.layers = <<>>, !.historyIndex = -1]),
    FALSE, FALSE)

\* The ResizeObserver callback's resize part (lines 123-139).
resize(s, w) ==
  renderCanvas([s EXCEPT
    !.layers = [i \in 1..Len(s.layers) |-> drawImageScaled(s.layers[i], w)],
    !.canvas = Blank(w)])

getImageDataUrl == canvas

Put(s) ==
  /\ layers' = s.layers
  /\ historyIndex' = s.historyIndex
  /\ canvas' = s.canvas
  /\ canUndo' = s.canUndo
  /\ canRedo' = s.canRedo

strokeVars == <<isDrawing, lastPos, currentStrokeLayer>>
startVars  == <<isInitialized, observerUrl, roPending, initImage,
                initialDrawingUrl, savedEffectRan>>
aiVars     == <<aiDrawingToLoad, aiImage>>

CanAdd(s) == s.historyIndex + 2 <= MaxLayers

\* ----------------------------------------------------- DrawingCanvas actions

histVars == <<layers, historyIndex, canvas, canUndo, canRedo>>

\* The name recorded for an addLayer call made in state s.
AddOp(s) == IF s.historyIndex < Len(s.layers) - 1 THEN "addAfterUndo" ELSE "add"

\* Pointer input, tool calls and AI images reach the page only after its mount
\* effects have run and the first layout has been observed.
PageReady == savedEffectRan /\ observerUrl = initialDrawingUrl /\ ~roPending

\* mousedown / touchstart (lines 210-221).  No guard on isDrawingRef: a second
\* button or a second finger re-enters it during a stroke.
handleStart ==
  \E c \in 1..Len(canvas) :
    /\ PageReady
    /\ isDrawing' = TRUE
    /\ lastPos' = Some(c)
    /\ currentStrokeLayer' = Some(Blank(Len(canvas)))
    /\ UNCHANGED <<histVars, startVars, aiVars, savedDrawing, app, lastOp,
                   touched>>

\* mousemove / touchmove (lines 223-254).
handleMove ==
  \E c \in 1..Len(canvas) :
    /\ isDrawing
    /\ IF ~IsNone(lastPos) /\ ~IsNone(currentStrokeLayer)
       THEN /\ currentStrokeLayer' =
                 Some(drawSegment(Get(currentStrokeLayer), Get(lastPos), c))
            /\ canvas' = drawSegment(canvas, Get(lastPos), c)
            /\ lastPos' = Some(c)
       ELSE UNCHANGED <<currentStrokeLayer, canvas, lastPos>>
    /\ UNCHANGED <<layers, historyIndex, isDrawing, canUndo, canRedo, startVars,
                   aiVars, savedDrawing, app, lastOp, touched>>

\* mouseup / touchend / mouseleave (lines 256-265).
handleEnd ==
  /\ IF isDrawing /\ ~IsNone(currentStrokeLayer)
     THEN /\ CanAdd(St)
          /\ Put(addLayer(St, Get(currentStrokeLayer)))
          /\ lastOp' = AddOp(St)
          /\ touched' = TRUE
     ELSE UNCHANGED <<histVars, lastOp, touched>>
  /\ isDrawing' = FALSE
  /\ lastPos' = None
  /\ currentStrokeLayer' = None
  /\ UNCHANGED <<startVars, aiVars, savedDrawing, app>>

\* The undo handle (App.handleUndo -> lines 77-83).
DoUndo ==
  /\ PageReady
  /\ Put(undo(St))
  /\ lastOp' = "undo"
  /\ touched' = TRUE
  /\ UNCHANGED <<strokeVars, startVars, aiVars, savedDrawing, app>>

\* The redo handle (App.handleRedo -> lines 85-91).
DoRedo ==
  /\ PageReady
  /\ Put(redo(St))
  /\ lastOp' = "redo"
  /\ touched' = TRUE
  /\ UNCHANGED <<strokeVars, startVars, aiVars, savedDrawing, app>>

\* The clearCanvas tool (App.tsx 473-482): the 500 ms timer fires and calls
\* clearCanvas on the canvas handle.  The shake flag only sets a CSS class.
ClearCanvasTimer ==
  /\ PageReady
  /\ Put(clearCanvas(St))
  /\ lastOp' = "clear"
  /\ touched' = TRUE
  /\ UNCHANGED <<strokeVars, startVars, aiVars, savedDrawing, app>>

\* The ResizeObserver callback (lines 118-159) for a parent box of width w.
\* It is delivered once after observe() and then whenever the box changes.
ResizeObserverCallback ==
  \E w \in Widths :
    /\ roPending \/ w # Len(canvas)
    /\ roPending' = FALSE
    /\ IF Len(canvas) = w
       THEN UNCHANGED <<histVars, isInitialized, initImage, lastOp>>
       ELSE LET s1 == resize(St, w) IN
            IF isInitialized
            THEN Put(s1) /\ UNCHANGED <<isInitialized, initImage, lastOp>>
            ELSE /\ isInitialized' = TRUE
                 /\ IF ~IsNone(observerUrl)
                    THEN Put(s1) /\ initImage' = observerUrl
                         /\ UNCHANGED lastOp
                    ELSE Put(clearCanvas(s1)) /\ lastOp' = "clear"
                         /\ UNCHANGED initImage
    /\ UNCHANGED <<strokeVars, observerUrl, initialDrawingUrl, savedEffectRan,
                   aiVars, savedDrawing, app, touched>>

\* image.onload of the initial drawing (lines 146-153).
InitialImageOnload ==
  /\ ~IsNone(initImage)
  /\ CanAdd(St)
  /\ Put(addLayer(St, drawImageScaled(Get(initImage), Len(canvas))))
  /\ initImage' = None
  /\ lastOp' = AddOp(St)
  /\ UNCHANGED <<strokeVars, isInitialized, observerUrl, roPending,
                 initialDrawingUrl, savedEffectRan, aiVars, savedDrawing, app,
                 touched>>

\* The parent renders the component with a new aiDrawingToLoad; the effect of
\* lines 167-194 starts loading it.
AiDrawingEffect ==
  \E img \in AiImages :
    /\ PageReady
    /\ IsNone(aiDrawingToLoad)
    /\ IsNone(aiImage)
    /\ aiDrawingToLoad' = Some(img)
    /\ aiImage' = Some(img)
    /\ UNCHANGED <<histVars, strokeVars, startVars, savedDrawing, app, lastOp,
                   touched>>

\* aiImage.onload (lines 176-187); onAiDrawingComplete resets the prop.
AiImageOnload ==
  /\ ~IsNone(aiImage)
  /\ CanAdd(St)
  /\ Put(addLayer(St, drawImageScaled(Get(aiImage), Len(canvas))))
  /\ aiImage' = None
  /\ aiDrawingToLoad' = None
  /\ lastOp' = AddOp(St)
  /\ touched' = TRUE
  /\ UNCHANGED <<strokeVars, startVars, savedDrawing, app>>

\* aiImage.onerror (lines 189-192).
AiImageOnerror ==
  /\ ~IsNone(aiImage)
  /\ aiImage' = None
  /\ aiDrawingToLoad' = None
  /\ UNCHANGED <<histVars, strokeVars, startVars, savedDrawing, app, lastOp,
                 touched>>

\* ------------------------------------------------ App actions on the canvas

\* The saved-drawing effect (App.tsx 135-140), run once after mount.
SavedDrawingEffect ==
  /\ ~savedEffectRan
  /\ savedEffectRan' = TRUE
  /\ initialDrawingUrl' = IF ~IsNone(savedDrawing) THEN savedDrawing
                          ELSE initialDrawingUrl
  /\ UNCHANGED <<histVars, strokeVars, isInitialized, observerUrl, roPending,
                 initImage, aiVars, savedDrawing, app, lastOp, touched>>

\* The re-render after setInitialDrawingUrl: the resize effect's dependency
\* changed, so its cleanup unobserves and a new observer is installed whose
\* callback closes over the new initialDrawingUrl (lines 113-164).
ResizeEffectRerun ==
  /\ observerUrl # initialDrawingUrl
  /\ observerUrl' = initialDrawingUrl
  /\ roPending' = TRUE
  /\ UNCHANGED <<histVars, strokeVars, isInitialized, initImage,
                 initialDrawingUrl, savedEffectRan, aiVars, savedDrawing, app,
                 lastOp, touched>>

\* handleSaveDrawing (App.tsx 568-578).
handleSaveDrawing ==
  /\ PageReady
  /\ savedDrawing' = Some(getImageDataUrl)
  /\ UNCHANGED <<histVars, strokeVars, startVars, aiVars, lastOp, touched,
                 app>>

\* The state of a freshly mounted page.
CanvasInit ==
  /\ layers = <<>>
  /\ historyIndex = -1
  /\ canvas = <<>>
  /\ isDrawing = FALSE
  /\ lastPos = None
  /\ currentStrokeLayer = None
  /\ isInitialized = FALSE
  /\ observerUrl = None
  /\ roPending = TRUE
  /\ initImage = None
  /\ aiDrawingToLoad = None
  /\ aiImage = None
  /\ canUndo = FALSE
  /\ canRedo = FALSE
  /\ initialDrawingUrl = None
  /\ savedEffectRan = FALSE
  /\ lastOp = "mount"
  /\ touched = FALSE
  /\ savedDrawing \in SavedAtLoad

\* The page is loaded again: every component state starts over, local storage
\* is kept.
Reload ==
  /\ layers' = <<>>
  /\ historyIndex' = -1
  /\ canvas' = <<>>
  /\ isDrawing' = FALSE
  /\ lastPos' = None
  /\ currentStrokeLayer' = None
  /\ isInitialized' = FALSE
  /\ observerUrl' = None
  /\ roPending' = TRUE
  /\ initImage' = None
  /\ aiDrawingToLoad' = None
  /\ aiImage' = None
  /\ canUndo' = FALSE
  /\ canRedo' = FALSE
  /\ initialDrawingUrl' = None
  /\ savedEffectRan' = FALSE
  /\ lastOp' = "mount"
  /\ touched' = FALSE
  /\ UNCHANGED <<savedDrawing, app>>

\* ======================================================================== App

MsgFailedStart == "Failed to start. Check console for details."
MsgMicDenied ==
  "Microphone access denied. Please allow microphone permissions and try again."
MsgErrGeneric == "An error occurred. Please try again."
MsgErrKey ==
  "Connection failed. Please select a valid API key and try again."
MsgErrNetwork == "Network error. Please check your connection and try again."
MsgEnded == "Session ended. Press the left knob to play again!"

\* What e.message of a session error can contain (lines 351-356).
ErrorKinds == {"key", "network", "other"}

\* One call of live.connect: its promise, its socket and the closure of the
\* handleStart call that made it.
NewSession(st, msg) ==
  [promise |-> "pending",    \* pending | resolved | rejected
   ws |-> "connecting",      \* connecting | open | closed
   startStatus |-> st,       \* `status` as the callbacks' closure sees it
   startMessage |-> msg,     \* `aiMessage` as that closure sees it
   sendQueue |-> <<>>,       \* microphone chunks waiting for the promise
   mic |-> "none",           \* none | requesting | granted | denied
   errored |-> FALSE,        \* onerror has fired
   closeCalled |-> FALSE,    \* session.close() has been called
   closeQueued |-> FALSE]    \* a .then(session => session.close()) is pending

AppInit ==
  [status |-> "idle",
   aiMessage |-> "Press the left knob to begin!",
   isKeySelected |-> TRUE,
   radioPaused |-> TRUE,
   radioWasPlayingOnStart |-> FALSE,
   startSounds |-> 0,             \* playStartSound calls so far
   sessionPromiseRef |-> 0,       \* 0 is null, else an index into sess
   sess |-> <<>>,
   stopAwait |-> 0,               \* handleStop suspended on this session
   mediaStreamRef |-> 0,          \* 0 is null, else the session whose
                                  \* getUserMedia call returned the stream
   liveStreams |-> {},            \* streams whose tracks are not stopped
   micConnected |-> FALSE,        \* the script processor is connected
   inputCtx |-> "none",           \* none | open | closed
   outputCtx |-> "none",
   ctxGen |-> 0,                  \* which context outputCtx is
   clock |-> 0,                   \* outputAudioContext.currentTime
   nextAudioStartTime |-> 0,
   audioPlaybackSources |-> {},
   ending |-> {},                 \* stopped sources, 'ended' not yet fired
   decoding |-> {},               \* invocations suspended in decodeAudioData
   nChunks |-> 0,
   played |-> {},                 \* chunks started since the last reset
   isAiDrawing |-> FALSE,
   isAiDrawingRef |-> FALSE,
   pendingDrawStart |-> FALSE,
   drawTimers |-> 0,              \* armed 100 ms timers
   generating |-> FALSE,          \* an editDrawing call awaits its image
   aiImageToLoad |-> FALSE,       \* aiImageToLoad is non-null
   hasSentCanvasForThisTurn |-> FALSE,
   turnCanvasSnapshot |-> None,
   turnLog |-> <<>>,              \* what was sent to the session this turn
   currentOutput |-> ""]

\* ---- ControlButton (components/ControlButton.tsx)

isDisabled(status) == status = "connecting"

\* getButtonContent: the handler the button's click runs.
getButtonAction(status, isKeySelected) ==
  IF ~isKeySelected /\ status # "connecting" /\ status # "active"
  THEN "onSelectKey"
  ELSE CASE status = "connecting" -> "noop"
         [] status = "active" -> "onStop"
         [] status = "error" ->
              IF ~isKeySelected THEN "onSelectKey" ELSE "onStart"
         [] OTHER -> "onStart"

\* ---- handlers as functions of the App state

cleanup(s) ==
  [s EXCEPT
     !.liveStreams = @ \ {s.mediaStreamRef},
     !.mediaStreamRef = 0,
     !.micConnected = FALSE,
     !.inputCtx = IF @ = "open" THEN "closed" ELSE @,
     !.outputCtx = IF @ = "open" THEN "closed" ELSE @,
     !.ending = @ \cup s.audioPlaybackSources,
     !.audioPlaybackSources = {},
     !.played = {},
     !.nextAudioStartTime = 0,
     !.radioPaused = IF s.radioWasPlayingOnStart THEN FALSE ELSE @,
     !.radioWasPlayingOnStart = FALSE]

\* A catch block that reports the failure and releases nothing.
catchBlockNoCleanup(s) ==
  [s EXCEPT !.status = "error", !.aiMessage = MsgFailedStart]

\* The catch block of handleStart (lines 397-402).
catchBlock(s) ==
  cleanup([s EXCEPT !.status = "error", !.aiMessage = MsgFailedStart])

\* handleStart past its guard, up to its await (lines 266-395).  throws: "no",
\* or the step of the try block that throws synchronously.
startBody(s, throws) ==
  LET s1 == [s EXCEPT
               !.startSounds = @ + 1,
               !.radioWasPlayingOnStart = IF ~s.radioPaused THEN TRUE ELSE @,
               !.radioPaused = TRUE,
               !.status = "connecting",
               !.aiMessage = "Connecting...",
               !.currentOutput = "",
               !.hasSentCanvasForThisTurn = FALSE,
               !.turnLog = <<>>,
               !.pendingDrawStart = FALSE]
      s2 == [s1 EXCEPT !.inputCtx = "open", !.outputCtx = "open",
                       !.ctxGen = @ + 1, !.clock = 0]
  IN CASE throws = "constructor" -> catchBlock(s1)
       [] throws = "connect" -> catchBlock(s2)
       [] OTHER -> [s2 EXCEPT !.sess = Append(@, NewSession(s.status,
                                                           s.aiMessage)),
                              !.sessionPromiseRef = Len(s.sess) + 1]

\* handleStart that starts whatever the status is.
App_handleStartNoGuard(s, throws) == startBody(s, throws)

\* handleStart (lines 263-403), up to its await.
App_handleStart(s, throws) ==
  IF s.status = "active" \/ s.status = "connecting" THEN s
  ELSE startBody(s, throws)

\* onopen up to its await of getUserMedia (lines 295-310).
onopen(s, i) ==
  [s EXCEPT !.status = "active",
            !.aiMessage = "greeting",
            !.sess[i].ws = "open",
            !.sess[i].mic = "requesting"]

\* session.close() through sessionPromiseRef.current?.then (line 315).
closeThroughRef(s) ==
  LET j == s.sessionPromiseRef IN
  IF j = 0 THEN s
  ELSE IF s.sess[j].promise = "resolved"
       THEN [s EXCEPT !.sess[j].closeCalled = TRUE]
       ELSE [s EXCEPT !.sess[j].closeQueued = TRUE]

\* onopen after getUserMedia rejects (lines 311-318).
micDenied(s, i) ==
  cleanup(closeThroughRef(
    [s EXCEPT !.status = "error",
              !.aiMessage = MsgMicDenied,
              !.sess[i].mic = "denied"]))

\* onopen after getUserMedia resolves (lines 310, 320-344).  Nodes cannot be
\* created on a closed context: the rest of onopen then throws.
micGranted(s, i) ==
  [s EXCEPT !.sess[i].mic = "granted",
            !.mediaStreamRef = i,
            !.liveStreams = @ \cup {i},
            !.micConnected = (s.inputCtx = "open")]

\* onerror (lines 347-361).
onerror(s, i, kind) ==
  cleanup(
    [s EXCEPT !.status = "error",
              !.aiMessage = CASE kind = "key" -> MsgErrKey
                              [] kind = "network" -> MsgErrNetwork
                              [] OTHER -> MsgErrGeneric,
              !.isKeySelected = IF kind = "key" THEN FALSE ELSE @,
              !.sess[i].errored = TRUE])

\* onclose (lines 362-366): `status` is the value handleStart closed over.
onclose(s, i) ==
  cleanup(
    [s EXCEPT !.status = IF s.sess[i].startStatus # "error" THEN "idle" ELSE @,
              !.sess[i].ws = "closed"])

\* handleStop that ends the session and releases nothing.
handleStopRestNoCleanup(s, i) ==
  LET s1 == IF i = 0 THEN s
            ELSE [s EXCEPT
                    !.sess[i].closeCalled =
                        IF s.sess[i].promise = "resolved" THEN TRUE ELSE @,
                    !.sessionPromiseRef = 0]
  IN [s1 EXCEPT !.status = "idle",
                !.aiMessage = MsgEnded,
                !.isAiDrawing = FALSE,
                !.stopAwait = 0]

\* handleStop after its await (lines 233-244); i is the awaited session, 0
\* when sessionPromiseRef was null.
handleStopRest(s, i) ==
  LET s1 == IF i = 0 THEN s
            ELSE [s EXCEPT
                    !.sess[i].closeCalled =
                        IF s.sess[i].promise = "resolved" THEN TRUE ELSE @,
                    !.sessionPromiseRef = 0]
  IN [cleanup(s1) EXCEPT !.status = "idle",
                         !.aiMessage = MsgEnded,
                         !.isAiDrawing = FALSE,
                         !.pendingDrawStart = FALSE,
                         !.stopAwait = 0]

\* handleSelectKey (lines 247-261).  outcome: what window.aistudio does.
handleSelectKey(s, outcome) ==
  CASE outcome = "selected" -> [s EXCEPT !.isKeySelected = TRUE]
    [] outcome = "failed" ->
         [s EXCEPT !.aiMessage = "Could not open API key selection."]
    [] OTHER ->
         [s EXCEPT !.aiMessage = "API key selection is not available here."]

\* The drawing effects (lines 142-167), run when isAiDrawing has changed.
drawingEffects(s) ==
  IF s.isAiDrawing
  THEN [s EXCEPT !.isAiDrawingRef = TRUE,
                 !.ending = @ \cup s.audioPlaybackSources,
                 !.audioPlaybackSources = {},
                 !.played = {},
                 !.nextAudioStartTime = 0]
  ELSE [s EXCEPT !.isAiDrawingRef = FALSE]

\* The 100 ms timer armed at lines 415 and 515.
armTimer(s) ==
  IF s.audioPlaybackSources = {} /\ s.pendingDrawStart
  THEN [s EXCEPT !.drawTimers = @ + 1] ELSE s

\* decodeAudioData of audioUtils: the promise of a buffer of the chunk's
\* duration; the caller is suspended until it resolves.
decodeAudioData(s, dur) ==
  [s EXCEPT !.decoding = @ \cup {[id |-> s.nChunks + 1, dur |-> dur,
                                   ctx |-> s.ctxGen]},
            !.nChunks = @ + 1]

\* source.start(when) of Web Audio: a start time in the past starts now; a
\* source of a closed context plays nothing.
startSource(s, c) ==
  LET when == s.nextAudioStartTime
      begin == Max(when, s.clock)
  IN IF c.ctx = s.ctxGen /\ s.outputCtx = "open"
     THEN [s EXCEPT !.played = @ \cup {[id |-> c.id, begin |-> begin,
                                        end |-> begin + c.dur]}]
     ELSE s

\* The audio part of handleServerMessage up to its await (lines 493-507).
audioReceived(s, dur) ==
  IF s.isAiDrawingRef THEN s
  ELSE decodeAudioData(
         [s EXCEPT !.nextAudioStartTime = Max(@, s.clock)], dur)

\* The audio part of handleServerMessage after its await (lines 508-526).
audioDecoded(s, c) ==
  [startSource(s, c) EXCEPT
     !.nextAudioStartTime = @ + c.dur,
     !.audioPlaybackSources = @ \cup {c.id},
     !.decoding = @ \ {c}]

\* source.stop() on every playing source (line 530): what has not begun never
\* plays, what plays ends now.
stopPlayed(s) ==
  {[p EXCEPT !.end = Min(@, s.clock)] :
     p \in {q \in s.played : q.begin < s.clock}}

\* The 'ended' listener (lines 511-523).
ended(s, id) ==
  armTimer([s EXCEPT !.audioPlaybackSources = @ \ {id},
                     !.ending = @ \ {id}])

\* A timer callback that starts the drawing phase without looking.
timerFiredUnchecked(s) ==
  [s EXCEPT !.drawTimers = @ - 1,
            !.isAiDrawing = TRUE,
            !.pendingDrawStart = FALSE]

\* The timer callback (lines 416-419 and 517-520).
timerFired(s) ==
  IF s.audioPlaybackSources = {} /\ s.pendingDrawStart
  THEN [s EXCEPT !.drawTimers = @ - 1,
                 !.isAiDrawing = TRUE,
                 !.pendingDrawStart = FALSE]
  ELSE [s EXCEPT !.drawTimers = @ - 1]

\* What sendRealtimeInput hands to the session: a canvas image or a
\* microphone chunk; drawing tells whether isAiDrawing was true when the
\* audio of the chunk was captured.
Sent(kind, img, drawing) == [kind |-> kind, img |-> img, drawing |-> drawing]

\* A callback that sends the canvas with every chunk.
sendCallbackEveryChunk(s, i, img, drawing) ==
  LET open == s.sess[i].ws = "open" IN
  [s EXCEPT !.hasSentCanvasForThisTurn = TRUE,
            !.turnCanvasSnapshot = Some(img),
            !.turnLog = IF open
                        THEN @ \o <<Sent("image", Some(img), drawing),
                                    Sent("audio", None, drawing)>>
                        ELSE @]

\* The callback of sessionPromiseRef.current?.then in onaudioprocess (lines
\* 329-340), run with the session of promise i; img is what getImageDataUrl
\* returns.  A socket that is not open takes nothing.
sendCallback(s, i, img, drawing) ==
  LET open == s.sess[i].ws = "open"
      first == ~s.hasSentCanvasForThisTurn
      s1 == IF first
            THEN [s EXCEPT !.hasSentCanvasForThisTurn = TRUE,
                           !.turnCanvasSnapshot = Some(img),
                           !.turnLog = IF open
                                       THEN Append(@, Sent("image", Some(img),
                                                           drawing))
                                       ELSE @]
            ELSE s
  IN [s1 EXCEPT !.turnLog = IF open THEN Append(@, Sent("audio", None, drawing))
                            ELSE @]

\* The callbacks queued on promise i run in order when it resolves.
RECURSIVE runSendQueue(_, _, _, _)
runSendQueue(s, i, img, q) ==
  IF q = <<>> THEN s
  ELSE runSendQueue(sendCallback(s, i, img, Head(q)), i, img, Tail(q))

\* onaudioprocess (lines 323-341).
onaudioprocess(s, img) ==
  LET j == s.sessionPromiseRef IN
  IF s.isAiDrawingRef \/ j = 0 THEN s
  ELSE CASE s.sess[j].promise = "resolved" ->
              sendCallback(s, j, img, s.isAiDrawing)
         [] s.sess[j].promise = "pending" ->
              [s EXCEPT !.sess[j].sendQueue = Append(@, s.isAiDrawing)]
         [] OTHER -> s

\* The turnComplete part of handleServerMessage (lines 548-560), for a
\* message without a tool call, of session i.
turnComplete(s, i) ==
  [s EXCEPT !.hasSentCanvasForThisTurn = FALSE,
            !.turnCanvasSnapshot = None,
            !.turnLog = <<>>,
            !.currentOutput = "",
            !.aiMessage = IF s.sess[i].startMessage = "Listening..."
                          THEN "Your turn!" ELSE @]

\* The inputTranscription part of handleServerMessage (lines 543-546).
inputTranscription(s) ==
  [s EXCEPT !.aiMessage = "Listening...", !.currentOutput = ""]

\* ---- the actions of App

Sessions == 1..Len(app.sess)

Throws == {"no", "constructor", "connect"}

PutApp(s) == app' = s /\ UNCHANGED canvasVars

\* A click on the control button (ControlButton.tsx 64-66, App.tsx 611-616).
ClickStart ==
  /\ getButtonAction(app.status, app.isKeySelected) = "onStart"
  /\ app.startSounds < MaxSessions
  /\ \E t \in Throws : PutApp(App_handleStart(app, t))

\* handleStart called while a session is connecting or active.
StartWhileBusy ==
  /\ app.status \in {"connecting", "active"}
  /\ \E t \in Throws : PutApp(App_handleStart(app, t))

ClickStop ==
  /\ getButtonAction(app.status, app.isKeySelected) = "onStop"
  /\ app.stopAwait = 0
  /\ LET i == app.sessionPromiseRef IN
       IF i # 0 /\ app.sess[i].promise = "pending"
       THEN PutApp([app EXCEPT !.stopAwait = i])
       ELSE PutApp(handleStopRest(app, i))

\* handleStop resumes when the promise it awaits has settled.
HandleStopResume ==
  /\ app.stopAwait # 0
  /\ app.sess[app.stopAwait].promise # "pending"
  /\ PutApp(handleStopRest(app, app.stopAwait))

ClickSelectKey ==
  /\ getButtonAction(app.status, app.isKeySelected) = "onSelectKey"
  /\ \E o \in {"selected", "failed", "unavailable"} :
       PutApp(handleSelectKey(app, o))

\* toggleRadio (lines 193-202).
ToggleRadio ==
  /\ app' = [app EXCEPT !.radioPaused = ~@]
  /\ UNCHANGED canvasVars

\* The socket opens: onopen runs up to getUserMedia.
Onopen ==
  \E i \in Sessions :
    /\ app.sess[i].ws = "connecting"
    /\ ~app.sess[i].errored
    /\ PutApp(onopen(app, i))

\* The promise of live.connect resolves, after the socket has opened; the
\* handlers queued on it run.
ConnectResolves ==
  \E i \in Sessions :
    /\ app.sess[i].promise = "pending"
    /\ app.sess[i].ws # "connecting"
    /\ PutApp([runSendQueue(app, i, getImageDataUrl, app.sess[i].sendQueue)
                 EXCEPT
                 !.sess[i].promise = "resolved",
                 !.sess[i].sendQueue = <<>>,
                 !.sess[i].closeCalled = @ \/ app.sess[i].closeQueued,
                 !.sess[i].closeQueued = FALSE])

\* The promise of live.connect rejects, no socket having opened: the await of
\* line 395 throws.
ConnectRejects ==
  \E i \in Sessions :
    /\ app.sess[i].promise = "pending"
    /\ app.sess[i].ws = "connecting"
    /\ ~app.sess[i].errored
    /\ PutApp(catchBlock([app EXCEPT !.sess[i].promise = "rejected",
                                     !.sess[i].ws = "closed"]))

MicGranted ==
  \E i \in Sessions :
    /\ app.sess[i].mic = "requesting"
    /\ PutApp(micGranted(app, i))

MicDenied ==
  \E i \in Sessions :
    /\ app.sess[i].mic = "requesting"
    /\ PutApp(micDenied(app, i))

Onerror ==
  \E i \in Sessions, kind \in ErrorKinds :
    /\ app.sess[i].ws # "closed"
    /\ ~app.sess[i].errored
    /\ PutApp(onerror(app, i, kind))

\* The socket closes: after an error, after session.close(), or by the server.
Onclose ==
  \E i \in Sessions :
    /\ \/ app.sess[i].ws = "open"
       \/ app.sess[i].errored /\ app.sess[i].ws # "closed"
    /\ PutApp(onclose(app, i))

\* ---- audio and drawing

\* Messages come from a session whose socket is open.
Receiving == \E i \in Sessions : app.sess[i].ws = "open"

\* outputAudioContext.currentTime advances.
Tick ==
  /\ app.outputCtx = "open"
  /\ app.clock < MaxClock
  /\ PutApp([app EXCEPT !.clock = @ + 1])

\* onmessage with an audio chunk.
AudioMessage ==
  /\ Receiving
  /\ app.outputCtx # "none"
  /\ app.nChunks < MaxChunks
  /\ \E dur \in 1..MaxDur : PutApp(audioReceived(app, dur))

\* decodeAudioData resolves and the invocation goes on.
AudioDecoded ==
  \E c \in app.decoding : PutApp(audioDecoded(app, c))

\* The 'ended' event of a source that has played to its end or was stopped.
SourceEnded ==
  \E id \in app.audioPlaybackSources \cup app.ending :
    /\ id \in app.ending
       \/ \E p \in app.played : p.id = id /\ p.end <= app.clock
    /\ PutApp(ended(app, id))

\* onmessage with serverContent.interrupted (lines 529-532).
Interrupted ==
  /\ Receiving
  /\ app.audioPlaybackSources # {}
  /\ PutApp([app EXCEPT !.played = stopPlayed(app),
                        !.ending = @ \cup app.audioPlaybackSources])

\* onmessage with an editDrawing call, up to generateContent (409-458).
ToolCallEditDrawing ==
  /\ Receiving
  /\ ~app.generating
  /\ app.drawTimers < MaxTimers
  /\ PutApp([armTimer([app EXCEPT !.pendingDrawStart = TRUE])
               EXCEPT !.generating = TRUE,
                      !.aiMessage = "Drawing"])

\* generateContent settles (lines 460-471).
GenerateContentSettles ==
  /\ app.generating
  /\ \/ PutApp([app EXCEPT !.generating = FALSE, !.aiImageToLoad = TRUE])
     \/ PutApp([app EXCEPT !.generating = FALSE,
                           !.aiMessage = "Sorry, I couldn't edit the drawing.",
                           !.isAiDrawing = FALSE])

DrawTimerFires ==
  /\ app.drawTimers > 0
  /\ PutApp(timerFired(app))

\* React runs the effects that depend on isAiDrawing.
DrawingEffects ==
  /\ app.isAiDrawing # app.isAiDrawingRef
  /\ PutApp(drawingEffects(app))

\* ---- the microphone

\* The script processor delivers a buffer of microphone audio.
AudioProcess ==
  /\ app.micConnected
  /\ Len(app.turnLog) < MaxSends
  /\ \A i \in Sessions : Len(app.sess[i].sendQueue) < MaxSends
  /\ PutApp(onaudioprocess(app, getImageDataUrl))

\* onmessage with serverContent.turnComplete.
TurnComplete ==
  \E i \in Sessions :
    /\ app.sess[i].ws = "open"
    /\ PutApp(turnComplete(app, i))

\* onmessage with serverContent.inputTranscription.
InputTranscription ==
  /\ Receiving
  /\ PutApp(inputTranscription(app))

\* ---- App renders DrawingCanvas

\* The props of the DrawingCanvas element (App.tsx 682-689).
DrawingCanvasProps(s) ==
  [shake |-> FALSE,
   aiImageToLoad |-> IF s.aiImageToLoad THEN Some(CHOOSE img \in AiImages : TRUE)
                     ELSE None,
   onAiDrawingComplete |-> "handleAiDrawingComplete",
   initialDrawingUrl |-> initialDrawingUrl,
   onHistoryUpdate |-> "handleHistoryUpdate"]

\* The parameter aiDrawingToLoad of DrawingCanvas (DrawingCanvas.tsx 24): a
\* prop the element does not name is undefined.
propAiDrawingToLoad(props) ==
  IF "aiDrawingToLoad" \in DOMAIN props THEN props.aiDrawingToLoad ELSE None

\* App renders; the AI drawing effect (DrawingCanvas.tsx 167-194) runs when
\* its aiDrawingToLoad has changed and starts loading a non-null one.
RenderDrawingCanvas ==
  LET p == propAiDrawingToLoad(DrawingCanvasProps(app)) IN
  /\ aiDrawingToLoad' = p
  /\ aiImage' = IF ~IsNone(p) /\ p # aiDrawingToLoad THEN p ELSE aiImage
  /\ UNCHANGED <<histVars, strokeVars, startVars, savedDrawing, app, lastOp,
                 touched>>

Init == CanvasInit /\ app = AppInit

NextCanvas ==
  \/ handleStart
  \/ handleMove
  \/ handleEnd
  \/ DoUndo
  \/ DoRedo
  \/ ClearCanvasTimer
  \/ ResizeObserverCallback
  \/ InitialImageOnload
  \/ AiDrawingEffect
  \/ AiImageOnload
  \/ AiImageOnerror
  \/ SavedDrawingEffect
  \/ ResizeEffectRerun

SpecCanvas == Init /\ [][NextCanvas]_vars

NextStartup ==
  \/ handleStart
  \/ handleMove
  \/ handleEnd
  \/ ResizeObserverCallback
  \/ InitialImageOnload
  \/ SavedDrawingEffect
  \/ ResizeEffectRerun
  \/ handleSaveDrawing
  \/ Reload

SpecStartup == Init /\ [][NextStartup]_vars

\* ===================================================================== claims

\* The page without a saved drawing: these specifications leave the canvas
\* alone.
AppSpecInit == Init /\ IsNone(savedDrawing)

NextSession ==
  \/ ClickStart
  \/ StartWhileBusy
  \/ ClickStop
  \/ HandleStopResume
  \/ ClickSelectKey
  \/ ToggleRadio
  \/ Onopen
  \/ ConnectResolves
  \/ ConnectRejects
  \/ MicGranted
  \/ MicDenied
  \/ Onerror
  \/ Onclose

SpecSession == AppSpecInit /\ [][NextSession]_vars

\* The first session, its audio and the drawing phase.
FirstStart == app.sess = <<>> /\ ClickStart

NextAudio ==
  \/ FirstStart
  \/ Onopen
  \/ ConnectResolves
  \/ Onclose
  \/ Tick
  \/ AudioMessage
  \/ AudioDecoded
  \/ SourceEnded
  \/ Interrupted
  \/ ToolCallEditDrawing
  \/ GenerateContentSettles
  \/ DrawTimerFires
  \/ DrawingEffects

SpecAudio == AppSpecInit /\ [][NextAudio]_vars

\* The first session, its editDrawing calls and the canvas App renders.
NextAiImage ==
  \/ FirstStart
  \/ Onopen
  \/ ConnectResolves
  \/ ClickStop
  \/ HandleStopResume
  \/ ToolCallEditDrawing
  \/ GenerateContentSettles
  \/ DrawTimerFires
  \/ DrawingEffects
  \/ RenderDrawingCanvas

\* React renders after a state change, promises settle, timers and effects
\* run.
SpecAiImage ==
  /\ AppSpecInit
  /\ [][NextAiImage]_vars
  /\ WF_vars(RenderDrawingCanvas)
  /\ WF_vars(GenerateContentSettles)
  /\ WF_vars(DrawTimerFires)
  /\ WF_vars(DrawingEffects)

\* The first session with its microphone, the turns of the conversation and
\* the drawing phase.
NextMic ==
  \/ FirstStart
  \/ Onopen
  \/ MicGranted
  \/ MicDenied
  \/ ConnectResolves
  \/ AudioProcess
  \/ TurnComplete
  \/ ToolCallEditDrawing
  \/ GenerateContentSettles
  \/ DrawTimerFires
  \/ DrawingEffects

SpecMic == AppSpecInit /\ [][NextMic]_vars

\* The first session with its microphone and the turns of the conversation,
\* while the user draws on the canvas.
NextTurn ==
  \/ SavedDrawingEffect
  \/ ResizeObserverCallback
  \/ handleStart
  \/ handleMove
  \/ handleEnd
  \/ FirstStart
  \/ Onopen
  \/ MicGranted
  \/ ConnectResolves
  \/ AudioProcess
  \/ TurnComplete
  \/ InputTranscription

SpecTurn == AppSpecInit /\ [][NextTurn]_vars

\* The first session with its audio, the drawing phase and the stop button.
NextDrawing ==
  \/ FirstStart
  \/ Onopen
  \/ ConnectResolves
  \/ ClickStop
  \/ HandleStopResume
  \/ Tick
  \/ AudioMessage
  \/ AudioDecoded
  \/ SourceEnded
  \/ Interrupted
  \/ ToolCallEditDrawing
  \/ GenerateContentSettles
  \/ DrawTimerFires
  \/ DrawingEffects

SpecDrawing == AppSpecInit /\ [][NextDrawing]_vars

\* Every layer a stroke or an image can add to a canvas of width w.
LayersOfWidth(w) == [1..w -> Colors]

\* C1: after any sequence of addLayer (stroke end, AI image load, initial
\* drawing load), undo, redo, clearCanvas and resize, the index satisfies
\* -1 <= historyIndex <= layers.length - 1.
C1_HistoryIndexInRange ==
  /\ -1 <= historyIndex
  /\ historyIndex <= Len(layers) - 1

\* Reached: a full history undone to the bottom.
C1_Witness ==
  /\ lastOp = "undo"
  /\ historyIndex = -1
  /\ Len(layers) = MaxLayers

\* C2: when historyIndex > -1, undo followed at once by redo leaves layers and
\* historyIndex as they were; when a redo is available, redo followed at once
\* by undo restores layers and historyIndex.
C2_UndoRedoRoundTrip ==
  /\ historyIndex > -1 =>
       LET r == redo(undo(St))
       IN r.layers = layers /\ r.historyIndex = historyIndex
  /\ historyIndex < Len(layers) - 1 =>
       LET u == undo(redo(St))
       IN u.layers = layers /\ u.historyIndex = historyIndex

\* Reached: an undo has left a layer below and a layer above the index, so
\* both round trips apply.
C2_Witness ==
  /\ lastOp = "undo"
  /\ historyIndex > -1
  /\ historyIndex < Len(layers) - 1

\* C3: addLayer after one or more undos discards every layer above
\* historyIndex: the layers become the old layers[0..historyIndex] followed by
\* the new layer, historyIndex is layers.length - 1, and a following redo has
\* no effect.
C3_AddLayerDiscardsUndone ==
  /\ \A l \in LayersOfWidth(Len(canvas)) :
       historyIndex < Len(layers) - 1 =>
         LET s2 == addLayer(St, l)
         IN /\ s2.layers = Append(SubSeq(layers, 1, historyIndex + 1), l)
            /\ s2.historyIndex = Len(s2.layers) - 1
            /\ redo(s2) = s2
  /\ lastOp = "addAfterUndo" =>
       /\ historyIndex = Len(layers) - 1
       /\ ~canRedo
       /\ redo(St) = St

\* Reached: a layer was added while undone layers existed.
C3_Witness ==
  /\ lastOp = "addAfterUndo"
  /\ Len(layers) >= 1

\* C4: whenever no user stroke is in progress, the visible canvas shows
\* exactly the composite of layers[0..historyIndex] in order.
C4_CanvasShowsComposite ==
  ~isDrawing => canvas = Composite(layers, historyIndex, Len(canvas))

\* C5: clearCanvas empties the layers, sets historyIndex to -1 and reports
\* canUndo = canRedo = false; a following undo or redo changes nothing.
C5_ClearResetsHistory ==
  /\ LET s == clearCanvas(St)
     IN /\ s.layers = <<>>
        /\ s.historyIndex = -1
        /\ ~s.canUndo
        /\ ~s.canRedo
        /\ undo(s) = s
        /\ redo(s) = s
  /\ lastOp = "clear" =>
       /\ layers = <<>>
       /\ historyIndex = -1
       /\ ~canUndo
       /\ ~canRedo
       /\ undo(St) = St
       /\ redo(St) = St

\* Reached: the clearCanvas tool has cleared a page that was in use.
C5_Witness ==
  /\ lastOp = "clear"
  /\ touched
  /\ layers = <<>>
  /\ Len(canvas) > 0

\* Start-up has settled: the saved-drawing effect has run, the observer in
\* place closes over the current initialDrawingUrl and has delivered its first
\* notification, and no initial image is still loading.
StartupSettled ==
  /\ savedEffectRan
  /\ observerUrl = initialDrawingUrl
  /\ ~roPending
  /\ IsNone(initImage)

\* C9: if local storage holds a saved drawing at start-up, the canvas ends up
\* with exactly one layer (the saved image) and historyIndex 0, whatever the
\* order of the first ResizeObserver callback and the initialDrawingUrl update.
C9_SavedDrawingLoaded ==
  (~IsNone(initialDrawingUrl) /\ StartupSettled /\ ~touched) =>
    /\ Len(layers) = 1
    /\ historyIndex = 0

\* C6: two audio chunks started with no reset in between (drawing start,
\* cleanup) never play at the same time.
C6_NoOverlap ==
  \A p, q \in app.played :
    p.id # q.id => (p.end <= q.begin \/ q.end <= p.begin)

C7_StartThrew ==
  /\ app'.startSounds = app.startSounds + 1
  /\ Len(app'.sess) = Len(app.sess)

C7_Rejected ==
  \E i \in Sessions :
    app.sess[i].promise = "pending" /\ app'.sess[i].promise = "rejected"

\* C7: a step in which handleStart's try block throws or the promise of
\* live.connect rejects ends with status 'error', the message 'Failed to
\* start. Check console for details.', the microphone stream stopped and
\* released, no playback source, and the radio playing again if it was
\* playing when the session was started.
C7_StartFailureHandled ==
  [][(C7_StartThrew \/ C7_Rejected) =>
       /\ app'.status = "error"
       /\ app'.aiMessage = MsgFailedStart
       /\ app'.mediaStreamRef = 0
       /\ app.mediaStreamRef \notin app'.liveStreams
       /\ app'.audioPlaybackSources = {}
       /\ app'.nextAudioStartTime = 0
       /\ (~app.radioPaused \/ app.radioWasPlayingOnStart)
            => ~app'.radioPaused]_vars

\* A start has failed in its try block while the radio had been playing: the
\* radio plays again.
C7_Witness ==
  /\ app.status = "error"
  /\ app.aiMessage = MsgFailedStart
  /\ ~app.radioPaused
  /\ app.startSounds > 0

\* A session has failed: its onerror has fired, or its onopen was denied the
\* microphone.
failed(x) == x.errored \/ x.mic = "denied"

\* C8: while the session started last has failed and the user has neither
\* started nor stopped since (sessionPromiseRef still holds its promise, no
\* handleStop is under way), status is 'error'.
C8_ErrorStatusSticks ==
  LET n == Len(app.sess) IN
  (n > 0 /\ failed(app.sess[n]) /\ app.sessionPromiseRef = n
     /\ app.stopAwait = 0)
    => app.status = "error"

\* C10: while status is 'connecting' or 'active' a call of handleStart
\* changes nothing, whatever its try block would do; while 'connecting' the
\* control button is disabled and its click is not bound to onStart.
C10_BusyStartNoEffect ==
  app.status \in {"connecting", "active"} =>
    /\ \A t \in Throws : App_handleStart(app, t) = app
    /\ app.status = "connecting" =>
         /\ isDisabled(app.status)
         /\ getButtonAction(app.status, app.isKeySelected) # "onStart"

\* One session is connecting, after one start sound.
C10_Witness ==
  /\ app.status = "connecting"
  /\ app.startSounds = 1
  /\ Len(app.sess) = 1
  /\ app.sess[1].ws = "connecting"

\* handleStop runs to its end in this step: only it sets its message.
C11_StopCompleted ==
  app.aiMessage # MsgEnded /\ app'.aiMessage = MsgEnded

\* C11: when handleStop has run to its end, status is 'idle',
\* sessionPromiseRef is null, close() has been called on the awaited session
\* if its promise had resolved, audioPlaybackSources is empty,
\* nextAudioStartTime is 0, isAiDrawing is false and pendingDrawStart is
\* false.
C11_StopPostcondition ==
  [][C11_StopCompleted =>
       LET i == IF app.stopAwait # 0 THEN app.stopAwait
                ELSE app.sessionPromiseRef
       IN /\ app'.status = "idle"
          /\ app'.sessionPromiseRef = 0
          /\ (i # 0 /\ app.sess[i].promise = "resolved")
               => app'.sess[i].closeCalled
          /\ app'.audioPlaybackSources = {}
          /\ app'.nextAudioStartTime = 0
          /\ ~app'.isAiDrawing
          /\ ~app'.pendingDrawStart]_vars

\* handleStop has ended a connected session whose speech was playing.
C11_Witness ==
  /\ app.aiMessage = MsgEnded
  /\ app.status = "idle"
  /\ app.sessionPromiseRef = 0
  /\ Len(app.sess) = 1
  /\ app.sess[1].closeCalled
  /\ app.ending # {}
  /\ app.audioPlaybackSources = {}

\* C12: once App holds a generated image in aiImageToLoad, DrawingCanvas
\* comes to load it (the first step towards the new layer and
\* onAiDrawingComplete).
C12_AiImageLoaded ==
  app.aiImageToLoad ~> ~IsNone(aiImage)

\* C13: while isAiDrawing is true and its effects have run, no playback
\* source is in audioPlaybackSources.
C13_SilentWhileDrawing ==
  (app.isAiDrawing /\ app.isAiDrawingRef) => app.audioPlaybackSources = {}

\* setIsAiDrawing(true) is executed in this step: a timer callback clears
\* pendingDrawStart.
C14_Executed ==
  /\ app.pendingDrawStart /\ ~app'.pendingDrawStart
  /\ app'.drawTimers < app.drawTimers

\* C14: isAiDrawing becomes true only in a timer callback that finds
\* pendingDrawStart true and audioPlaybackSources empty, and that callback
\* clears pendingDrawStart; a timer is armed only while the set is empty;
\* pendingDrawStart becomes true only in an editDrawing call.
C14_DrawStartGuarded ==
  [][/\ (app'.isAiDrawing /\ ~app.isAiDrawing) => C14_Executed
     /\ C14_Executed =>
          /\ app.audioPlaybackSources = {}
          /\ app.drawTimers > 0
          /\ app'.isAiDrawing
     /\ app'.drawTimers > app.drawTimers => app'.audioPlaybackSources = {}
     /\ (app'.pendingDrawStart /\ ~app.pendingDrawStart)
          => (app'.generating /\ ~app.generating)]_vars

\* The drawing phase has started after speech was played: the editDrawing
\* call still awaits its image, nothing is pending, no timer is armed.
C14_Witness ==
  /\ app.isAiDrawing
  /\ ~app.pendingDrawStart
  /\ app.generating
  /\ app.drawTimers = 0
  /\ app.nChunks > 0
  /\ app.decoding = {}

\* C15: nothing sent to the session in this turn, chunk or canvas image,
\* belongs to audio captured while isAiDrawing was true.
C15_NothingSentWhileDrawing ==
  \A k \in 1..Len(app.turnLog) : ~app.turnLog[k].drawing

\* C16: of what was sent to the session in this turn the first item is the
\* canvas image and the only one, every later item is a microphone chunk,
\* and turnCanvasSnapshot holds that image.
C16_OneImagePerTurn ==
  LET log == app.turnLog IN
  log # <<>> =>
    /\ log[1].kind = "image"
    /\ \A k \in 2..Len(log) : log[k].kind = "audio"
    /\ app.turnCanvasSnapshot = log[1].img

\* A turn in which the canvas image and two chunks were sent, and the user
\* has drawn on the canvas since the image was taken.
C16_Witness ==
  /\ Len(app.turnLog) = 3
  /\ app.turnLog[1].kind = "image"
  /\ app.turnCanvasSnapshot # Some(canvas)
  /\ app.hasSentCanvasForThisTurn

====
